---- MODULE Spec2Model ----
(***************************************************************************)
(* Model of the bkp copy engine (package cmd): the containment guard       *)
(* ensureDstOutsideSrc, the file copier backupFile, the directory walker   *)
(* backupDirectory and the dispatcher runE, over an explicit filesystem.   *)
(*                                                                         *)
(* A path string is a record [abs, comps]: abs says whether it starts with *)
(* a separator, comps is the sequence of its components.  A component is a *)
(* sequence of characters, so that the string tests of the code            *)
(* (rel == ".", strings.HasPrefix(rel, "..")) are computed on characters.  *)
(* The filesystem is a function from absolute component sequences to nodes *)
(* [dir, data]; the root <<>> is always a directory.  No symbolic links.   *)
(***************************************************************************)
EXTENDS Naturals, Sequences, FiniteSets, TLC

VARIABLES
    fs,       \* the filesystem now
    fs0,      \* the filesystem when the current invocation started
    cwd,      \* the process working directory (absolute components)
    op,       \* the entry point called: "guard", "file", "dir" or "run"
    nargs,    \* runE: len(args)
    src,      \* the source path string
    dst,      \* the destination path string
    pc,       \* "start", "walking" (inside filepath.WalkDir) or "done"
    stack,    \* WalkDir: the entries still to visit, next one first
    visited,  \* WalkDir: the entries the callback has been called on, in order
    err,      \* the error returned ("nil": none)
    run       \* how many times the caller has invoked the operation

vars == <<fs, fs0, cwd, op, nargs, src, dst, pc, stack, visited, err, run>>

\* Longest path (in components) the filesystem accepts: the stand-in for
\* PATH_MAX; longer paths fail with ENAMETOOLONG.
MaxDepth == 4

\* How many times the caller invokes the same operation in a row.
MaxRuns == 2

(***************************************************************************)
(* Characters, names and path strings                                      *)
(***************************************************************************)
Dot == <<".">>
DotDot == <<".", ".">>
nf == <<"f">>
ns == <<"s">>
nt == <<"t">>
ndt == <<".", ".", "t">>

\* Byte value of a character (the order os.ReadDir sorts file names by).
CharRank(c) ==
    CASE c = "." -> 46
      [] c = "/" -> 47
      [] c = "f" -> 102
      [] c = "s" -> 115
      [] c = "t" -> 116

RECURSIVE StrLess(_, _)
StrLess(a, b) ==
    IF b = <<>> THEN FALSE
    ELSE IF a = <<>> THEN TRUE
    ELSE IF Head(a) = Head(b) THEN StrLess(Tail(a), Tail(b))
    ELSE CharRank(Head(a)) < CharRank(Head(b))

\* strings.HasPrefix
HasPrefix(s, prefix) ==
    /\ Len(s) >= Len(prefix)
    /\ SubSeq(s, 1, Len(prefix)) = prefix

Front(s) == SubSeq(s, 1, Len(s) - 1)
Last(s) == s[Len(s)]

AbsPath(comps) == [abs |-> TRUE, comps |-> comps]
RelPath(comps) == [abs |-> FALSE, comps |-> comps]

\* filepath.Clean on components: "." is dropped, ".." removes the component
\* before it, is dropped at the root and is kept at the start of a relative
\* path.
RECURSIVE CleanComps(_, _, _)
CleanComps(abs, comps, out) ==
    IF comps = <<>> THEN out
    ELSE LET c == Head(comps)
             rest == Tail(comps)
         IN  IF c = Dot THEN CleanComps(abs, rest, out)
             ELSE IF c = DotDot
                  THEN IF out # <<>> /\ Last(out) # DotDot
                       THEN CleanComps(abs, rest, Front(out))
                       ELSE IF abs THEN CleanComps(abs, rest, out)
                            ELSE CleanComps(abs, rest, Append(out, c))
                  ELSE CleanComps(abs, rest, Append(out, c))

Clean(p) == [abs |-> p.abs, comps |-> CleanComps(p.abs, p.comps, <<>>)]

\* filepath.Join(a, b): the elements joined by a separator, then cleaned.
Join(a, b) == Clean([abs |-> a.abs, comps |-> a.comps \o b.comps])

\* filepath.Base: the last element; "/" and "." have none.
Base(p) ==
    LET c == Clean(p).comps
    IN  RelPath(IF c = <<>> THEN <<>> ELSE <<Last(c)>>)

\* filepath.Dir: all but the last element, cleaned.
Dir(p) ==
    LET c == Clean(p).comps
    IN  Clean([abs |-> p.abs, comps |-> IF c = <<>> THEN <<>> ELSE Front(c)])

\* filepath.Abs: an absolute path is cleaned, a relative one is joined to the
\* working directory.
Abs(wd, p) == IF p.abs THEN Clean(p) ELSE Join(AbsPath(wd), p)

\* The string of a path: its components separated by "/"; "." when empty.
RECURSIVE JoinSep(_)
JoinSep(comps) ==
    IF comps = <<>> THEN <<>>
    ELSE IF Len(comps) = 1 THEN Head(comps)
    ELSE Head(comps) \o <<"/">> \o JoinSep(Tail(comps))

RelString(comps) == IF comps = <<>> THEN Dot ELSE JoinSep(comps)

RECURSIVE CommonLen(_, _)
CommonLen(a, b) ==
    IF a = <<>> \/ b = <<>> \/ Head(a) # Head(b) THEN 0
    ELSE 1 + CommonLen(Tail(a), Tail(b))

\* filepath.Rel(base, targ): both cleaned; an error when one is absolute and
\* the other is not, or when base keeps a ".." that cannot be resolved;
\* otherwise one ".." per component of base below the common prefix, then
\* the components of targ below it.
Rel(base, targ) ==
    LET b == Clean(base)
        t == Clean(targ)
        k == CommonLen(b.comps, t.comps)
        rb == SubSeq(b.comps, k + 1, Len(b.comps))
        rt == SubSeq(t.comps, k + 1, Len(t.comps))
    IN  IF b.abs # t.abs THEN [err |-> TRUE, comps |-> <<>>]
        ELSE IF rb # <<>> /\ Head(rb) = DotDot THEN [err |-> TRUE, comps |-> <<>>]
        ELSE [err |-> FALSE, comps |-> [i \in 1..Len(rb) |-> DotDot] \o rt]

(***************************************************************************)
(* Path containment guard                                                  *)
(***************************************************************************)
\* The guard with the prefix test written as "../": a destination that is
\* the parent of the source is then refused.
ensureDstOutsideSrc_SlashPrefix(wd, s, d) ==
    LET rel == Rel(Abs(wd, s), Abs(wd, d))
        str == RelString(rel.comps)
    IN  IF rel.err THEN "rel"
        ELSE IF str = Dot \/ ~HasPrefix(str, <<".", ".", "/">>) THEN "nested"
        ELSE "nil"

ensureDstOutsideSrc(wd, s, d) ==
    LET rel == Rel(Abs(wd, s), Abs(wd, d))
        str == RelString(rel.comps)
    IN  IF rel.err THEN "rel"
        ELSE IF str = Dot \/ ~HasPrefix(str, DotDot) THEN "nested"
        ELSE "nil"

(***************************************************************************)
(* The filesystem and the os calls the code makes                          *)
(***************************************************************************)
DirNode == [dir |-> TRUE, data |-> <<>>]
FileNode(data) == [dir |-> FALSE, data |-> data]

\* The location the operating system resolves a path string to.
OsPath(wd, p) == Abs(wd, p).comps

IsPrefix(a, b) == Len(a) <= Len(b) /\ SubSeq(b, 1, Len(a)) = a

\* The longest prefix of p that exists (the root always does).
RECURSIVE ExistingPrefix(_, _)
ExistingPrefix(f, p) ==
    IF p \in DOMAIN f THEN p ELSE ExistingPrefix(f, Front(p))

\* os.Stat / os.Lstat: "dir" or "file" when p exists; else the errno.
\* Only "enoent" satisfies os.IsNotExist.
Stat(f, p) ==
    IF Len(p) > MaxDepth THEN "toolong"
    ELSE IF p \in DOMAIN f THEN (IF f[p].dir THEN "dir" ELSE "file")
    ELSE IF f[ExistingPrefix(f, p)].dir THEN "enoent"
    ELSE "enotdir"

\* os.MkdirAll(p, 0755): nil when p is a directory; an error, nothing made,
\* when p or one of its ancestors is a file; else every missing ancestor and
\* p are made.  Components beyond the path limit cannot be made.
MkdirAll(f, p) ==
    LET q == IF Len(p) > MaxDepth THEN SubSeq(p, 1, MaxDepth) ELSE p
        missing == {SubSeq(q, 1, i) : i \in 0..Len(q)} \ DOMAIN f
    IN  IF ~f[ExistingPrefix(f, q)].dir THEN [fs |-> f, err |-> "enotdir"]
        ELSE [fs |-> [x \in DOMAIN f \cup missing |->
                         IF x \in DOMAIN f THEN f[x] ELSE DirNode],
              err |-> IF Len(p) > MaxDepth THEN "toolong" ELSE "nil"]

\* Opening the destination with O_CREATE but without O_TRUNC: an existing
\* file keeps its bytes.
CreateDst_NoTrunc(f, p) ==
    LET k == Stat(f, p)
    IN  IF k = "file" THEN [fs |-> f, err |-> "nil"]
        ELSE IF k = "enoent" /\ Len(p) > 0 /\ Stat(f, Front(p)) = "dir"
             THEN [fs |-> [x \in DOMAIN f \cup {p} |->
                              IF x = p THEN FileNode(<<>>) ELSE f[x]],
                   err |-> "nil"]
        ELSE [fs |-> f, err |-> IF k = "dir" THEN "eisdir" ELSE k]

\* os.Create(p): O_RDWR|O_CREATE|O_TRUNC.  The file is created empty or, if it
\* exists, truncated to length 0; an error when p is a directory or its parent
\* is not an existing directory.
CreateDst(f, p) ==
    LET k == Stat(f, p)
    IN  IF k = "file" \/ (k = "enoent" /\ Len(p) > 0 /\ Stat(f, Front(p)) = "dir")
        THEN [fs |-> [x \in DOMAIN f \cup {p} |->
                         IF x = p THEN FileNode(<<>>) ELSE f[x]],
              err |-> "nil"]
        ELSE [fs |-> f, err |-> IF k = "dir" THEN "eisdir" ELSE k]

\* Writing data at offset 0 of a file holding old: the bytes of old beyond
\* the written ones stay.
WriteAt0(old, data) == data \o SubSeq(old, Len(data) + 1, Len(old))

\* io.Copy(dstFile, srcFile): the bytes the source holds when it is read,
\* that is after the destination was created, are written to the destination.
CopyBytes(f, from, to) ==
    [f EXCEPT ![to] = FileNode(WriteAt0(f[to].data, f[from].data))]

(***************************************************************************)
(* File copier                                                             *)
(***************************************************************************)
\* The destination path backupFile writes to: dst, or dst/base(src) when dst
\* is an existing directory.
FinalDst(f, wd, s, d) ==
    IF Stat(f, OsPath(wd, d)) = "dir" THEN Join(d, Base(s)) ELSE d

\* backupFile(src, dst): the filesystem it leaves and the error it returns.
backupFile(f, wd, s, d) ==
    LET guard == ensureDstOutsideSrc(wd, s, d)
        dstKind == Stat(f, OsPath(wd, d))
        d2 == FinalDst(f, wd, s, d)
        mk == MkdirAll(f, OsPath(wd, Dir(d2)))
        srcKind == Stat(mk.fs, OsPath(wd, s))
        cr == CreateDst(mk.fs, OsPath(wd, d2))
    IN  IF guard # "nil" THEN [fs |-> f, err |-> guard]
        ELSE IF dstKind \notin {"dir", "file", "enoent"}
             THEN [fs |-> f, err |-> "access"]
        ELSE IF mk.err # "nil" THEN [fs |-> mk.fs, err |-> "mkdir"]
        ELSE IF srcKind \notin {"dir", "file"} THEN [fs |-> mk.fs, err |-> "open"]
        ELSE IF cr.err # "nil" THEN [fs |-> mk.fs, err |-> "create"]
        ELSE IF srcKind = "dir" THEN [fs |-> cr.fs, err |-> "copy"]
        ELSE [fs |-> CopyBytes(cr.fs, OsPath(wd, s), OsPath(wd, d2)),
              err |-> "nil"]

(***************************************************************************)
(* Directory walker                                                        *)
(***************************************************************************)
\* The names in directory p.
Names(f, p) == {Last(x) : x \in {y \in DOMAIN f : Len(y) = Len(p) + 1 /\ IsPrefix(p, y)}}

RECURSIVE SortNames(_)
SortNames(S) ==
    IF S = {} THEN <<>>
    ELSE LET m == CHOOSE a \in S : \A b \in S \ {a} : StrLess(a, b)
         IN  <<m>> \o SortNames(S \ {m})

\* os.ReadDir(path) as WalkDir uses it: the entries of the directory sorted by
\* file name, each with the path WalkDir gives the callback (Join(path, name))
\* and its type.
ReadDir(f, wd, path) ==
    LET p == OsPath(wd, path)
        names == SortNames(Names(f, p))
    IN  [i \in 1..Len(names) |->
            [path |-> Join(path, RelPath(<<names[i]>>)),
             isDir |-> f[Append(p, names[i])].dir]]

\* The callback with the result of MkdirAll dropped (the directory branch
\* returning nil whatever MkdirAll returned).
walkFn_IgnoreMkdirErr(f, wd, s, d, e) ==
    LET rel == Rel(s, e.path)
        targetPath == Join(d, RelPath(rel.comps))
    IN  IF rel.err THEN [fs |-> f, err |-> "rel"]
        ELSE IF e.isDir
             THEN [fs |-> MkdirAll(f, OsPath(wd, targetPath)).fs, err |-> "nil"]
             ELSE backupFile(f, wd, e.path, targetPath)

\* The callback backupDirectory gives WalkDir, on an entry that was read
\* without error: the filesystem it leaves and the error it returns.
walkFn(f, wd, s, d, e) ==
    LET rel == Rel(s, e.path)
        targetPath == Join(d, RelPath(rel.comps))
    IN  IF rel.err THEN [fs |-> f, err |-> "rel"]
        ELSE IF e.isDir THEN MkdirAll(f, OsPath(wd, targetPath))
        ELSE backupFile(f, wd, e.path, targetPath)

\* backupDirectory up to the first callback: the guard, then WalkDir's Lstat
\* of the root, whose error the callback returns as it is.
StartWalk(f, wd, s, d) ==
    LET guard == ensureDstOutsideSrc(wd, s, d)
        kind == Stat(f, OsPath(wd, s))
    IN  IF guard # "nil" THEN [pc |-> "done", err |-> guard, stack |-> <<>>]
        ELSE IF kind \notin {"dir", "file"}
             THEN [pc |-> "done", err |-> "lstat", stack |-> <<>>]
        ELSE [pc |-> "walking", err |-> "nil",
              stack |-> <<[path |-> s, isDir |-> kind = "dir"]>>]

(***************************************************************************)
(* Initial states                                                          *)
(***************************************************************************)
ContentA == <<1>>
ContentB == <<2, 2, 2>>
ContentC == <<3, 3>>

NoEntries == [x \in {} |-> DirNode]
One(p, node) == [x \in {p} |-> node]

\* The trees under /s the runs start from.
SrcTrees ==
    {NoEntries, One(<<ns>>, FileNode(ContentA))}
    \cup {One(<<ns>>, DirNode) @@ x @@ y @@ z :
            x \in {NoEntries, One(<<ns, nf>>, FileNode(ContentA))},
            y \in {NoEntries,
                   One(<<ns, ns>>, FileNode(ContentB)),
                   One(<<ns, ns>>, DirNode),
                   One(<<ns, ns>>, DirNode) @@ One(<<ns, ns, nf>>, FileNode(ContentB))},
            z \in {NoEntries, One(<<ns, nt>>, FileNode(ContentA))}}

\* The trees under /t the runs start from.
DstTrees ==
    {NoEntries, One(<<nt>>, FileNode(ContentC))}
    \cup {One(<<nt>>, DirNode) @@ x @@ y :
            x \in {NoEntries,
                   One(<<nt, nf>>, FileNode(ContentC)),
                   One(<<nt, nf>>, DirNode)},
            y \in {NoEntries,
                   One(<<nt, ns>>, FileNode(ContentC)),
                   One(<<nt, ns>>, DirNode)}}

InitFs == {One(<<>>, DirNode) @@ a @@ b : a \in SrcTrees, b \in DstTrees}

SrcInputs ==
    {AbsPath(<<ns>>), AbsPath(<<ns, nf>>), AbsPath(<<ns, ns>>), RelPath(<<ns>>)}

DstInputs ==
    {AbsPath(<<nt>>), AbsPath(<<nt, nf>>), AbsPath(<<nt, ns>>), AbsPath(<<nt, ns, nf>>),
     AbsPath(<<>>), AbsPath(<<ns>>), RelPath(<<nt>>)}

Init ==
    /\ fs \in InitFs
    /\ fs0 = fs
    /\ cwd = <<>>
    /\ \/ /\ op \in {"file", "dir", "run"}
          /\ nargs = 2
          /\ src \in SrcInputs
          /\ dst \in DstInputs
       \/ /\ op = "run"
          /\ nargs \in {0, 1}
          /\ src = AbsPath(<<ns>>)
          /\ dst = AbsPath(<<nt>>)
    /\ pc = "start"
    /\ stack = <<>>
    /\ visited = <<>>
    /\ err = "nil"
    /\ run = 1

(***************************************************************************)
(* Operations                                                              *)
(***************************************************************************)
\* backupFile(src, dst) called directly.
CallBackupFile ==
    /\ pc = "start"
    /\ op = "file"
    /\ LET r == backupFile(fs, cwd, src, dst)
       IN  /\ fs' = r.fs
           /\ err' = r.err
    /\ pc' = "done"
    /\ UNCHANGED <<fs0, cwd, op, nargs, src, dst, stack, visited, run>>

\* backupDirectory(src, dst) called directly: the guard and the start of
\* WalkDir.
CallBackupDirectory ==
    /\ pc = "start"
    /\ op = "dir"
    /\ LET r == StartWalk(fs, cwd, src, dst)
       IN  /\ pc' = r.pc
           /\ err' = r.err
           /\ stack' = r.stack
    /\ UNCHANGED <<fs, fs0, cwd, op, nargs, src, dst, visited, run>>

\* runE(cmd, args): help with fewer than two arguments; else the source is
\* statted and the call goes to backupDirectory or backupFile.
CallRunE ==
    /\ pc = "start"
    /\ op = "run"
    /\ LET kind == Stat(fs, OsPath(cwd, src))
           w == StartWalk(fs, cwd, src, dst)
           r == backupFile(fs, cwd, src, dst)
       IN  IF nargs < 2
           THEN /\ pc' = "done" /\ err' = "nil" /\ UNCHANGED <<fs, stack>>
           ELSE IF kind \notin {"dir", "file"}
           THEN /\ pc' = "done" /\ err' = "stat" /\ UNCHANGED <<fs, stack>>
           ELSE IF kind = "dir"
           THEN /\ pc' = w.pc /\ err' = w.err /\ stack' = w.stack /\ UNCHANGED fs
           ELSE /\ pc' = "done" /\ err' = r.err /\ fs' = r.fs /\ UNCHANGED stack
    /\ UNCHANGED <<fs0, cwd, op, nargs, src, dst, visited, run>>

\* One entry of the walk: the callback on the next entry; its error ends the
\* walk; after a directory its entries are read and come next, in name order.
WalkStep ==
    /\ pc = "walking"
    /\ stack # <<>>
    /\ LET e == Head(stack)
           r == walkFn(fs, cwd, src, dst, e)
           readable == Stat(r.fs, OsPath(cwd, e.path)) = "dir"
           next == IF e.isDir THEN ReadDir(r.fs, cwd, e.path) \o Tail(stack)
                   ELSE Tail(stack)
       IN  /\ fs' = r.fs
           /\ visited' = Append(visited, OsPath(cwd, e.path))
           /\ IF r.err # "nil"
              THEN /\ pc' = "done" /\ err' = r.err /\ stack' = <<>>
              ELSE IF e.isDir /\ ~readable
              THEN /\ pc' = "done" /\ err' = "readdir" /\ stack' = <<>>
              ELSE /\ stack' = next
                   /\ err' = "nil"
                   /\ pc' = IF next = <<>> THEN "done" ELSE "walking"
    /\ UNCHANGED <<fs0, cwd, op, nargs, src, dst, run>>

\* The caller runs the same command again after a success.
Rerun ==
    /\ pc = "done"
    /\ err = "nil"
    /\ nargs = 2
    /\ run < MaxRuns
    /\ run' = run + 1
    /\ fs0' = fs
    /\ pc' = "start"
    /\ visited' = <<>>
    /\ stack' = <<>>
    /\ UNCHANGED <<fs, cwd, op, nargs, src, dst, err>>

Next ==
    \/ CallBackupFile
    \/ CallBackupDirectory
    \/ CallRunE
    \/ WalkStep
    \/ Rerun

Spec == Init /\ [][Next]_vars

(***************************************************************************)
(* The guard called on its own, on paths in relative and absolute forms    *)
(***************************************************************************)
GuardInputs ==
    {AbsPath(<<>>), AbsPath(<<ns>>), AbsPath(<<nt>>), AbsPath(<<ns, nt>>),
     AbsPath(<<ns, ndt>>), AbsPath(<<ns, ns, nf>>), AbsPath(<<nt, DotDot, ns, nf>>),
     RelPath(<<>>), RelPath(<<DotDot>>), RelPath(<<ns>>), RelPath(<<ns, nt>>),
     RelPath(<<DotDot, nt>>), RelPath(<<Dot, ns, DotDot, ns>>), RelPath(<<ndt>>)}

InitGuard ==
    /\ fs \in {One(<<>>, DirNode) @@ a : a \in SrcTrees}
    /\ fs0 = fs
    /\ cwd \in {<<>>, <<ns>>}
    /\ op = "guard"
    /\ nargs = 2
    /\ src \in GuardInputs
    /\ dst \in GuardInputs
    /\ pc = "start"
    /\ stack = <<>>
    /\ visited = <<>>
    /\ err = "nil"
    /\ run = 1

\* ensureDstOutsideSrc(src, dst) called directly.
CallGuard ==
    /\ pc = "start"
    /\ op = "guard"
    /\ err' = ensureDstOutsideSrc(cwd, src, dst)
    /\ pc' = "done"
    /\ UNCHANGED <<fs, fs0, cwd, op, nargs, src, dst, stack, visited, run>>

NextGuard == CallGuard

SpecGuard == InitGuard /\ [][NextGuard]_vars

(***************************************************************************)
(* Properties                                                              *)
(***************************************************************************)
\* The absolute locations the arguments resolve to.
AbsSrc == OsPath(cwd, src)
AbsDst == OsPath(cwd, dst)

Range(s) == {s[i] : i \in DOMAIN s}

\* Subtree(f, p): the paths of f at or below p.
Subtree(f, p) == {x \in DOMAIN f : IsPrefix(p, x)}

\* The step leaves every path at or below p as it was and adds none there.
Untouched(p) ==
    \A x \in DOMAIN fs' : IsPrefix(p, x) => (x \in DOMAIN fs /\ fs'[x] = fs[x])

\* C1: whenever dst resolves to src itself or to a descendant of src, whatever
\* the names of its components and whatever the forms of the two paths,
\* ensureDstOutsideSrc returns an error.
C1_NestedDstRejected ==
    (op = "guard" /\ pc = "done" /\ IsPrefix(AbsSrc, AbsDst)) => err # "nil"

\* C2: whenever dst resolves neither to src nor to a descendant of src,
\* ensureDstOutsideSrc returns no error, and the filesystem is as it was
\* before the call.
C2_OutsideDstAccepted ==
    (op = "guard" /\ pc = "done" /\ ~IsPrefix(AbsSrc, AbsDst))
        => (err = "nil" /\ fs = fs0)

\* The guard has accepted a destination that is a proper ancestor of a source
\* given in relative form.
C2_Witness ==
    /\ op = "guard" /\ pc = "done" /\ err = "nil"
    /\ ~src.abs
    /\ AbsDst # AbsSrc
    /\ IsPrefix(AbsDst, AbsSrc)

\* A step that runs backupFile, and the source of that call.
CopyTaskPending ==
    \/ pc = "start" /\ op = "file"
    \/ pc = "start" /\ op = "run" /\ nargs = 2 /\ Stat(fs, AbsSrc) = "file"
    \/ pc = "walking" /\ ~Head(stack).isDir
CopyTaskSrc == IF pc = "walking" THEN OsPath(cwd, Head(stack).path) ELSE AbsSrc

\* C3: no call of backupFile creates, truncates or writes its own source or a
\* path below it: the path it writes, after the redirection into an existing
\* directory, is outside the source.
C3_WriteTargetOutsideSource ==
    [][CopyTaskPending => Untouched(CopyTaskSrc)]_vars

\* C4: after backupDirectory has returned without error on a source
\* directory, every directory the source held at r is a directory at dst/r
\* and every file it held at r is a file at dst/r with the same bytes.
C4_TreeReproduced ==
    (op = "dir" /\ pc = "done" /\ err = "nil" /\ Stat(fs0, AbsSrc) = "dir")
        => \A p \in Subtree(fs0, AbsSrc) :
              LET q == AbsDst \o SubSeq(p, Len(AbsSrc) + 1, Len(p))
              IN  /\ q \in DOMAIN fs
                  /\ fs[q].dir = fs0[p].dir
                  /\ fs[q].data = fs0[p].data

\* C5: after backupFile has succeeded on a dst that was a directory, dst/base(src)
\* is a file holding the bytes src held, dst is a directory, and nothing else
\* at or below dst was created or changed.
C5_CopiedIntoDirectory ==
    (op = "file" /\ pc = "done" /\ err = "nil" /\ Stat(fs0, AbsDst) = "dir")
        => LET target == Append(AbsDst, Last(AbsSrc))
           IN  /\ target \in DOMAIN fs
               /\ fs[target] = FileNode(fs0[AbsSrc].data)
               /\ fs[AbsDst].dir
               /\ \A x \in Subtree(fs, AbsDst) \ {target} :
                     x \in DOMAIN fs0 /\ fs[x] = fs0[x]

\* A call of backupFile, direct or through runE, has ended.
FileCallDone ==
    /\ pc = "done"
    /\ \/ op = "file"
       \/ op = "run" /\ nargs = 2 /\ Stat(fs0, AbsSrc) = "file"

\* C6: after backupFile has succeeded on a dst that was a regular file, dst
\* holds exactly the bytes src held: nothing of the old contents is left.
C6_OverwriteReplaces ==
    (FileCallDone /\ err = "nil" /\ Stat(fs0, AbsDst) = "file")
        => fs[AbsDst] = FileNode(fs0[AbsSrc].data)

\* A file has been copied over a longer file, and over a shorter one.
C6_Witness ==
    /\ FileCallDone /\ err = "nil" /\ Stat(fs0, AbsDst) = "file"
    /\ Len(fs0[AbsSrc].data) < Len(fs0[AbsDst].data)
    /\ fs0[AbsSrc].data # <<>>
    /\ fs[AbsDst].data = fs0[AbsSrc].data

\* C7: a copy from a source that does not exist, through runE, backupFile or
\* backupDirectory, returns an error and leaves the filesystem as it was.
C7_MissingSourceWritesNothing ==
    (pc = "done" /\ nargs = 2 /\ op \in {"file", "dir", "run"}
        /\ Stat(fs0, AbsSrc) \notin {"dir", "file"})
        => (err # "nil" /\ fs = fs0)

\* C8: a second run of a backupDirectory that succeeded also succeeds and
\* leaves the destination tree as the first run left it.
C8_SecondRunIdentical ==
    (op = "dir" /\ run > 1 /\ pc = "done")
        => /\ err = "nil"
           /\ Subtree(fs, AbsDst) = Subtree(fs0, AbsDst)
           /\ \A x \in Subtree(fs, AbsDst) : fs[x] = fs0[x]

\* C9: once the guard has passed and the walk is under way, no step of the
\* walk creates or changes a path at or below src.
C9_WalkWritesOutsideSource ==
    [][pc = "walking" => Untouched(AbsSrc)]_vars

\* The target of a walk entry is certain to fail: for a directory, the target
\* or one of its ancestors is a file or the target is too long; for a file,
\* an ancestor of the target is a file, or the target is a directory that
\* holds a directory of the file's name.
EntryMustFail(e) ==
    LET p == OsPath(cwd, e.path)
        q == AbsDst \o SubSeq(p, Len(AbsSrc) + 1, Len(p))
    IN  IF e.isDir
        THEN Len(q) > MaxDepth \/ ~fs[ExistingPrefix(fs, q)].dir
        ELSE \/ Stat(fs, q) = "enotdir"
             \/ Stat(fs, q) = "dir" /\ Stat(fs, Append(q, Last(p))) = "dir"

\* C10: the walk handles one entry per step, a directory before the entries
\* in it; an entry whose target directory cannot be made or whose copy fails
\* gives an error, and an error ends the walk: it is returned, nothing after
\* the failing entry is visited or written, and every file and directory
\* that was there stays as it was.
C10_AbortOnFirstError ==
    [][/\ pc = "walking" =>
            LET e == Head(stack)
                p == OsPath(cwd, e.path)
            IN  /\ visited' = Append(visited, p)
                /\ p # AbsSrc => Front(p) \in Range(visited)
                /\ \A x \in DOMAIN fs : x \in DOMAIN fs' /\ fs'[x].dir = fs[x].dir
                /\ EntryMustFail(e) => err' # "nil"
                /\ err' # "nil" =>
                      /\ pc' = "done" /\ stack' = <<>>
                      /\ \A x \in DOMAIN fs : fs'[x] = fs[x]
       /\ (pc = "done" /\ err # "nil") => UNCHANGED <<fs, visited>>]_vars

\* A walk has stopped at a subdirectory whose target is a file: the file
\* copied before it is in the destination, the entry after it was not visited
\* and has no copy.
C10_Witness ==
    /\ op = "dir" /\ pc = "done" /\ err = "enotdir"
    /\ AbsSrc = <<ns>> /\ AbsDst = <<nt>>
    /\ visited = <<(<<ns>>), <<ns, nf>>, <<ns, ns>>>>
    /\ <<nt, nf>> \in DOMAIN fs \ DOMAIN fs0
    /\ <<ns, nt>> \in DOMAIN fs
    /\ <<nt, nt>> \notin DOMAIN fs

====
